---- MODULE Spec2Model ----
(***************************************************************************)
(* Trip planning server (routes/views.py, routes/services/                 *)
(* local_geocoding.py, routes/models.py).                                  *)
(*                                                                         *)
(* Numbers.  The code computes with Python floats.  The model keeps them   *)
(* as exact fixed-point integers:                                          *)
(*   driving_hours (unrounded)   in seconds        (1/3600 h)              *)
(*   distance_miles (unrounded)  in milli-miles    (1/1000 mi)             *)
(*   every value stored through round(x, 2)  in hundredths                 *)
(*   (centi-hours, centi-miles)                                            *)
(* so round(x, 2) is a real conversion from the fine grid to hundredths.   *)
(***************************************************************************)
EXTENDS Integers, Sequences, FiniteSets, TLC

\* ------------------------------------------------------------------ bounds
\* Trip rows a behaviour may create.
MaxTrips == 2
\* Largest day_number a day-log query asks for.
MaxQueryDay == 3

\* ------------------------------------------------------- program constants
DefaultDrivingHoursLimit == 11
DefaultOffDutyHours == 10
DefaultFuelStopMiles == 1000
EstimatedDaysDivisor == 11
DailyDrivingCap == 11
BreakHours == 1
ScheduleOffDutyHours == 13
MaxDays == 30
AverageSpeedMph == 50
SecondsPerHour == 3600
\* 8.0, 0.5 and 24.0 hours in centi-hours
DayStartHour == 800
BreakLength == 50
DayEndHour == 2400
\* 0.5 h fuel stop in centi-hours
FuelDurationHours == 50

HTTP_200_OK == 200
HTTP_201_CREATED == 201
HTTP_400_BAD_REQUEST == 400
HTTP_404_NOT_FOUND == 404
HTTP_500_INTERNAL_SERVER_ERROR == 500

\* ------------------------------------------------------------- arithmetic
Min(a, b) == IF a <= b THEN a ELSE b
Max(a, b) == IF a >= b THEN a ELSE b

\* round(n / d) to the nearest integer, ties to even: Python's round(x, 2)
\* with x = n / (100 * d') read on the hundredths grid.
RoundDiv(n, d) ==
    LET q == n \div d
        r == n % d
    IN  IF 2 * r < d THEN q
        ELSE IF 2 * r > d THEN q + 1
        ELSE IF q % 2 = 0 THEN q ELSE q + 1

\* round(miles, 2): milli-miles -> centi-miles
RoundMiles(m) == RoundDiv(m, 10)

\* round(hours, 2): seconds -> centi-hours
RoundHours(s) == RoundDiv(s, 36)

\* distance_meters * 0.000621371, in milli-miles (truncated to the grid):
\* floor(meters * 621371 / 10^6), split so that no product leaves 32 bits.
MetersToMiles(meters) ==
    LET q == meters \div 1000
        r == meters % 1000
    IN  q * 621 + (q * 371 + (r * 621371) \div 1000) \div 1000

\* ------------------------------------------------------------ environment
\* The process environment: each variable is set to an integer or not set.
EnvVar(isset, value) == [isset |-> isset, value |-> value]
NotSet == EnvVar(FALSE, 0)

\* int(os.getenv(name, default))
Getenv(e, name, default) == IF e[name].isset THEN e[name].value ELSE default

driving_hours_limit(e) == Getenv(e, "DRIVING_HOURS_LIMIT", DefaultDrivingHoursLimit)
off_duty_hours(e) == Getenv(e, "OFF_DUTY_HOURS", DefaultOffDutyHours)
fuel_stop_miles(e) == Getenv(e, "FUEL_STOP_MILES", DefaultFuelStopMiles)

\* ------------------------------------------------------------- data model
\* location: an address of the request, or the label f'Fuel Stop {i}' /
\* f'Rest Stop {i}' (n = 0 for an address).
Location(label, n) == [label |-> label, n |-> n]

\* Rows are kept in creation order, which stands for created_at; id is the
\* row's position (uuid4: fresh for every row).
Trip(id, current_location, pickup_location, dropoff_location, current_cycle_hours, total_distance_miles, total_drive_hours, estimated_days) ==
    [id |-> id,
     current_location |-> current_location,
     pickup_location |-> pickup_location,
     dropoff_location |-> dropoff_location,
     current_cycle_hours |-> current_cycle_hours,
     total_distance_miles |-> total_distance_miles,
     total_drive_hours |-> total_drive_hours,
     estimated_days |-> estimated_days]

Stop(trip, stop_type, location, mile_marker, duration_hours) ==
    [trip |-> trip,
     stop_type |-> stop_type,
     location |-> location,
     mile_marker |-> mile_marker,
     duration_hours |-> duration_hours]

DailySchedule(trip, day_number, driving, on_duty, off_duty) ==
    [trip |-> trip,
     day_number |-> day_number,
     driving_hours |-> driving,
     on_duty_hours |-> on_duty,
     off_duty_hours |-> off_duty]

LogEntry(start_hour, end_hour, status) ==
    [start_hour |-> start_hour, end_hour |-> end_hour, status |-> status]

\* ------------------------------------------------------------ stop planner
\* (mutant) the floor alone, without the minimum of one day
EstimatedDaysNoMinimum(driving_hours) ==
    driving_hours \div (EstimatedDaysDivisor * SecondsPerHour)

\* estimated_days = max(1, int(driving_hours / 11))
EstimatedDays(driving_hours) ==
    Max(1, driving_hours \div (EstimatedDaysDivisor * SecondsPerHour))

\* int(distance_miles // fuel_stop_miles); the divisor is checked by the caller
fuel_stop_count(distance_miles, e) ==
    distance_miles \div (fuel_stop_miles(e) * 1000)

\* int(driving_hours // driving_hours_limit)
rest_stop_count(driving_hours, e) ==
    driving_hours \div (driving_hours_limit(e) * SecondsPerHour)

\* min(i * fuel_stop_miles, distance_miles), rounded to 2 places
FuelMileMarker(i, distance_miles, e) ==
    RoundMiles(Min(i * fuel_stop_miles(e) * 1000, distance_miles))

\* (mutant) the rest stop is not clipped at the end of the route
RestMileMarkerUnclipped(i, distance_miles, e) ==
    RoundMiles(i * driving_hours_limit(e) * AverageSpeedMph * 1000)

\* min(i * driving_hours_limit * 50, distance_miles), rounded to 2 places
RestMileMarker(i, distance_miles, e) ==
    RoundMiles(Min(i * driving_hours_limit(e) * AverageSpeedMph * 1000, distance_miles))

PickupStop(trip, pickup_location) ==
    Stop(trip, "pickup", Location(pickup_location, 0), 0, 0)

FuelStops(trip, distance_miles, e) ==
    [i \in 1..fuel_stop_count(distance_miles, e) |->
        Stop(trip, "fuel", Location("Fuel Stop", i),
             FuelMileMarker(i, distance_miles, e), FuelDurationHours)]

RestStops(trip, distance_miles, driving_hours, e) ==
    [i \in 1..rest_stop_count(driving_hours, e) |->
        Stop(trip, "rest", Location("Rest Stop", i),
             RestMileMarker(i, distance_miles, e), off_duty_hours(e) * 100)]

\* (mutant) the dropoff mile is cut to two decimals instead of rounded
DropoffStopTruncated(trip, dropoff_location, distance_miles) ==
    Stop(trip, "dropoff", Location(dropoff_location, 0), distance_miles \div 10, 0)

DropoffStop(trip, dropoff_location, distance_miles) ==
    Stop(trip, "dropoff", Location(dropoff_location, 0), RoundMiles(distance_miles), 0)

\* the list `stops` handed to Stop.objects.bulk_create
PlanStops(trip, pickup_location, dropoff_location, distance_miles, driving_hours, e) ==
    <<PickupStop(trip, pickup_location)>>
        \o FuelStops(trip, distance_miles, e)
        \o RestStops(trip, distance_miles, driving_hours, e)
        \o <<DropoffStop(trip, dropoff_location, distance_miles)>>

\* ------------------------------------------------ daily schedule generator
\* (mutant) the day takes all the remaining hours
DayHoursUncapped(remaining_hours) == remaining_hours

\* day_hours = min(11, remaining_hours)
DayHours(remaining_hours) ==
    Min(DailyDrivingCap * SecondsPerHour, remaining_hours)

\* (mutant) the day bound is off by one
ScheduleLoopGuardInclusive(remaining_hours, current_day) ==
    remaining_hours > 0 /\ current_day <= MaxDays

\* the loop condition
ScheduleLoopGuard(remaining_hours, current_day) ==
    remaining_hours > 0 /\ current_day < MaxDays

ScheduleOfDay(trip, current_day, day_hours) ==
    DailySchedule(trip, current_day,
                  RoundHours(day_hours),
                  RoundHours(day_hours + BreakHours * SecondsPerHour),
                  ScheduleOffDutyHours * 100)

RECURSIVE ScheduleLoop(_, _, _, _)
ScheduleLoop(trip, daily_schedules, current_day, remaining_hours) ==
    IF ScheduleLoopGuard(remaining_hours, current_day)
    THEN LET day_hours == DayHours(remaining_hours)
         IN  ScheduleLoop(trip,
                          Append(daily_schedules, ScheduleOfDay(trip, current_day, day_hours)),
                          current_day + 1,
                          remaining_hours - day_hours)
    ELSE daily_schedules

\* (mutant) the day counter starts at 0
GenerateScheduleFromZero(trip, driving_hours) == ScheduleLoop(trip, <<>>, 0, driving_hours)

\* the list `daily_schedules` handed to DailySchedule.objects.bulk_create
GenerateSchedule(trip, driving_hours) == ScheduleLoop(trip, <<>>, 1, driving_hours)

\* ------------------------------------------------------ day log synthesizer
DrivingEntries(schedule, current_hour) ==
    IF schedule.driving_hours > 0
    THEN <<LogEntry(current_hour, current_hour + schedule.driving_hours, "Driving")>>
    ELSE <<>>

\* (mutant) the break lasts the whole on-duty time that is not driving
BreakEntriesWholeBreak(schedule, current_hour) ==
    IF schedule.on_duty_hours - schedule.driving_hours > 0
    THEN <<LogEntry(current_hour,
                    current_hour + (schedule.on_duty_hours - schedule.driving_hours),
                    "Break")>>
    ELSE <<>>

BreakEntries(schedule, current_hour) ==
    IF schedule.on_duty_hours - schedule.driving_hours > 0
    THEN <<LogEntry(current_hour, current_hour + BreakLength, "Break")>>
    ELSE <<>>

\* (mutant) the Off Duty entry lasts the schedule's 13 off-duty hours
OffDutyEntriesWholeBlock(current_hour) ==
    IF current_hour < DayEndHour
    THEN <<LogEntry(current_hour, current_hour + ScheduleOffDutyHours * 100, "Off Duty")>>
    ELSE <<>>

OffDutyEntries(current_hour) ==
    IF current_hour < DayEndHour
    THEN <<LogEntry(current_hour, DayEndHour, "Off Duty")>>
    ELSE <<>>

\* current_hour after the entries emitted so far
Cursor(entries, start) ==
    IF entries = <<>> THEN start ELSE entries[Len(entries)].end_hour

SynthesizeDayLog(schedule) ==
    LET driving == DrivingEntries(schedule, DayStartHour)
        afterDriving == Cursor(driving, DayStartHour)
        break == BreakEntries(schedule, afterDriving)
        afterBreak == Cursor(break, afterDriving)
    IN  driving \o break \o OffDutyEntries(afterBreak)

\* ------------------------------------------------------ directions service
\* Addresses the geocoder resolves (its first feature's coordinates); for any
\* other address geocode_address returns None.
Geocodable == {"Denver, CO", "Chicago, IL", "Dallas, TX"}
Addresses == Geocodable \cup {"Nowhere"}

\* What the directions provider answers for a waypoint list.
Directions(kind, distance, duration) ==
    [kind |-> kind, distance |-> distance, duration |-> duration]
Route(distance_meters, duration_seconds) ==
    Directions("ok", distance_meters, duration_seconds)
HttpError == Directions("http_error", 0, 0)
EmptyRoutes == Directions("empty_routes", 0, 0)
None == Directions("None", 0, 0)

\* TRUE when coordinates come back, FALSE for None
geocode_address(address) == address \in Geocodable

\* validated_data holds current_location, pickup_location, dropoff_location
\* and current_cycle_hours: the keys 'origin' and 'destination' are never in
\* it, so only the two optional branches run, and a failed geocode there is
\* logged, not raised.  The result is the set of keys that got coordinates.
get_coordinates_from_request(request_data) ==
    {k \in {"pickup_location", "dropoff_location"} : geocode_address(request_data[k])}

\* fewer than 2 waypoints raises ValueError inside the try, which returns None
get_directions_with_waypoints(coordinates, outcome) ==
    IF Cardinality(coordinates) < 2 THEN None
    ELSE IF outcome.kind = "http_error" THEN None
    ELSE outcome

\* has_success: the returned dict has the key 'success'
ServiceResult(has_success, success, distance, duration) ==
    [has_success |-> has_success, success |-> success,
     distance |-> distance, duration |-> duration]

process_directions_request(request_data, outcome) ==
    LET coordinates == get_coordinates_from_request(request_data)
        directions_data == get_directions_with_waypoints(coordinates, outcome)
    IN  IF directions_data = None
        THEN ServiceResult(FALSE, FALSE, 0, 0)        \* {'error': 'Failed to get directions'}
        ELSE IF directions_data.kind = "empty_routes"
        THEN ServiceResult(TRUE, FALSE, 0, 0)         \* routes[0] raises, caught: success False
        ELSE ServiceResult(TRUE, TRUE, directions_data.distance, directions_data.duration)

\* ------------------------------------------------------------------ state
VARIABLES
    env,          \* the process environment (os.getenv)
    provider,     \* the answers the directions provider may give
    trips,        \* table Trip, in creation order
    stops,        \* table Stop, in id order
    schedules,    \* table DailySchedule, in id order
    log_entries,  \* table LogEntry, in id order
    pc,           \* where the planning request in flight stands
    local,        \* its local variables
    resp,         \* the response most recently returned by any view
    firstLog      \* the first day-log response returned

vars == <<env, provider, trips, stops, schedules, log_entries, pc, local, resp, firstLog>>
db == <<trips, stops, schedules, log_entries>>

Environment(token, limit, off_duty, fuel) ==
    [MAPBOX_ACCESS_TOKEN |-> token,
     DRIVING_HOURS_LIMIT |-> limit,
     OFF_DUTY_HOURS |-> off_duty,
     FUEL_STOP_MILES |-> fuel]

\* valid: serializer.is_valid(); the rest is validated_data
Request(valid, current_location, pickup_location, dropoff_location, current_cycle_hours) ==
    [valid |-> valid,
     current_location |-> current_location,
     pickup_location |-> pickup_location,
     dropoff_location |-> dropoff_location,
     current_cycle_hours |-> current_cycle_hours]

\* The frame of the planning request: the request it validated, the Trip it
\* created (0 before Trip.objects.create), and the unrounded distance_miles
\* (milli-miles) and driving_hours (seconds).  It is kept after the handler
\* returns, until the next request replaces it.
Local(request, trip, distance_miles, driving_hours) ==
    [request |-> request,
     trip |-> trip,
     distance_miles |-> distance_miles,
     driving_hours |-> driving_hours]
NoLocal == Local(Request(FALSE, "", "", "", 0), 0, 0, 0)

\* Response(...): view is the url name; trip and day_number are the trip
\* and day the handler worked on (0 when none); data is the body.
Response(view, status, trip, day_number, data) ==
    [view |-> view, status |-> status, trip |-> trip,
     day_number |-> day_number, data |-> data]
NoResponse == Response("none", 0, 0, 0, <<>>)

\* trip.stops.all(), trip.daily_schedules.all()
RelatedRows(table, id) == SelectSeq(table, LAMBDA row : row.trip = id)

\* TripSerializer(trip).data read from the given tables: the row with its
\* related stops and daily schedules
TripSerializer(t, stop_table, schedule_table) ==
    [trip |-> t,
     stops |-> RelatedRows(stop_table, t.id),
     daily_schedules |-> RelatedRows(schedule_table, t.id)]

Reverse(seq) == [i \in 1..Len(seq) |-> seq[Len(seq) + 1 - i]]

\* ------------------------------------------------------------------- Init
Token == EnvVar(TRUE, 1)

\* Environments the server is started in: nothing overridden; every planning
\* variable overridden; a fuel interval of 0; no Mapbox token.
Envs ==
    {Environment(Token, NotSet, NotSet, NotSet),
     Environment(Token, EnvVar(TRUE, 8), EnvVar(TRUE, 8), EnvVar(TRUE, 500)),
     Environment(Token, NotSet, NotSet, EnvVar(TRUE, 0)),
     Environment(NotSet, NotSet, NotSet, NotSet)}

\* Provider answers: no movement; 2500.0060 mi in 25 h; 100.0066 mi in
\* 11 h 20 s; an HTTP error; a 200 answer without routes.
Providers ==
    {Route(0, 0), Route(4023371, 90000), Route(160945, 39620), HttpError, EmptyRoutes}

\* Request bodies: one the serializer rejects; one with every address
\* known; one with an unknown pickup; one with an unknown dropoff.
Requests ==
    {Request(FALSE, "Denver, CO", "Chicago, IL", "Dallas, TX", 0),
     Request(TRUE, "Denver, CO", "Chicago, IL", "Dallas, TX", 20),
     Request(TRUE, "Denver, CO", "Nowhere", "Dallas, TX", 20),
     Request(TRUE, "Denver, CO", "Chicago, IL", "Nowhere", 0)}

Init ==
    /\ env \in Envs
    /\ provider = Providers
    /\ trips = <<>>
    /\ stops = <<>>
    /\ schedules = <<>>
    /\ log_entries = <<>>
    /\ pc = "idle"
    /\ local = NoLocal
    /\ resp = NoResponse
    /\ firstLog = NoResponse

\* ---------------------------------------------------- TripAPIView.create
\* return Response(..., status) out of create: the handler ends
Return(status, trip, data) ==
    /\ resp' = Response("create", status, trip, 0, data)
    /\ pc' = "idle"

\* a return before any Trip exists
Reject(request, status) ==
    /\ Return(status, 0, <<>>)
    /\ local' = Local(request, 0, 0, 0)
    /\ UNCHANGED trips

\* Validation, directions, and Trip.objects.create (committed at once: the
\* view opens no transaction).  dbOk = FALSE: the INSERT raises.
CreateTrip(request, outcome, dbOk) ==
    /\ pc = "idle"
    /\ Len(trips) < MaxTrips
    /\ LET result == process_directions_request(request, outcome)
           distance_miles == MetersToMiles(result.distance)
           driving_hours == result.duration
           id == Len(trips) + 1
       IN  IF ~request.valid
           THEN Reject(request, HTTP_400_BAD_REQUEST)
           ELSE IF ~env.MAPBOX_ACCESS_TOKEN.isset
           THEN Reject(request, HTTP_500_INTERNAL_SERVER_ERROR)
           ELSE IF ~result.has_success      \* result['success'] raises KeyError
           THEN Reject(request, HTTP_500_INTERNAL_SERVER_ERROR)
           ELSE IF ~result.success
           THEN Reject(request, HTTP_400_BAD_REQUEST)
           ELSE IF ~dbOk
           THEN Reject(request, HTTP_500_INTERNAL_SERVER_ERROR)
           ELSE /\ trips' = Append(trips,
                        Trip(id, request.current_location, request.pickup_location,
                             request.dropoff_location, request.current_cycle_hours,
                             RoundMiles(distance_miles), RoundHours(driving_hours),
                             EstimatedDays(driving_hours)))
                /\ local' = Local(request, id, distance_miles, driving_hours)
                /\ pc' = "stops"
                /\ UNCHANGED resp
    /\ UNCHANGED <<env, provider, stops, schedules, log_entries, firstLog>>

\* The stop list and Stop.objects.bulk_create.  A fuel interval or driving
\* limit of 0 raises ZeroDivisionError in the // that counts the stops.
SaveStops(dbOk) ==
    /\ pc = "stops"
    /\ IF fuel_stop_miles(env) = 0 \/ driving_hours_limit(env) = 0 \/ ~dbOk
       THEN Return(HTTP_500_INTERNAL_SERVER_ERROR, local.trip, <<>>) /\ UNCHANGED stops
       ELSE /\ stops' = stops \o PlanStops(local.trip, local.request.pickup_location,
                                            local.request.dropoff_location,
                                            local.distance_miles, local.driving_hours, env)
            /\ pc' = "schedules"
            /\ UNCHANGED resp
    /\ UNCHANGED <<env, provider, trips, schedules, log_entries, local, firstLog>>

\* The daily schedules, DailySchedule.objects.bulk_create and the 201 response.
SaveSchedules(dbOk) ==
    /\ pc = "schedules"
    /\ IF ~dbOk
       THEN Return(HTTP_500_INTERNAL_SERVER_ERROR, local.trip, <<>>) /\ UNCHANGED schedules
       ELSE /\ schedules' = schedules \o GenerateSchedule(local.trip, local.driving_hours)
            /\ Return(HTTP_201_CREATED, local.trip,
                      <<TripSerializer(trips[local.trip], stops, schedules')>>)
    /\ UNCHANGED <<env, provider, trips, stops, log_entries, local, firstLog>>

\* -------------------------------------------------------- the read views
\* TripAPIView.get: every trip, newest first, with its stops and schedules
TripList ==
    /\ resp' = Response("trip-list", HTTP_200_OK, 0, 0,
                   Reverse([i \in 1..Len(trips) |-> TripSerializer(trips[i], stops, schedules)]))
    /\ UNCHANGED <<env, provider, trips, stops, schedules, log_entries, pc, local, firstLog>>

\* TripDetailAPIView.get
TripDetail(id) ==
    /\ resp' = IF id \in 1..Len(trips)
               THEN Response("trip-detail", HTTP_200_OK, id, 0,
                             <<TripSerializer(trips[id], stops, schedules)>>)
               ELSE Response("trip-detail", HTTP_404_NOT_FOUND, id, 0, <<>>)
    /\ UNCHANGED <<env, provider, trips, stops, schedules, log_entries, pc, local, firstLog>>

\* (mutant) the lookup filters on the day alone
ScheduleLookupAnyTrip(table, trip_id, day_number) ==
    SelectSeq(table, LAMBDA s : s.day_number = day_number)

\* DailySchedule.objects.get(trip_id=..., day_number=...): the matching rows
ScheduleLookup(table, trip_id, day_number) ==
    SelectSeq(table, LAMBDA s : s.trip = trip_id /\ s.day_number = day_number)

\* the body of the day-log response
DayLog(day_number, schedule) ==
    [day_number |-> day_number,
     log_entries |-> SynthesizeDayLog(schedule),
     total_driving_hours |-> schedule.driving_hours,
     total_on_duty_hours |-> schedule.on_duty_hours,
     total_off_duty_hours |-> schedule.off_duty_hours]

\* DailyLogsAPIView.get
DailyLogsResponse(trip_id, day_number) ==
    LET found == ScheduleLookup(schedules, trip_id, day_number)
    IN  IF Len(found) = 0
        THEN Response("daily-logs", HTTP_404_NOT_FOUND, trip_id, day_number, <<>>)
        ELSE IF Len(found) > 1       \* MultipleObjectsReturned
        THEN Response("daily-logs", HTTP_500_INTERNAL_SERVER_ERROR, trip_id, day_number, <<>>)
        ELSE Response("daily-logs", HTTP_200_OK, trip_id, day_number,
                      <<DayLog(day_number, found[1])>>)

\* firstLog keeps the first 200 answer the view gave.
DailyLogs(trip_id, day_number) ==
    /\ resp' = DailyLogsResponse(trip_id, day_number)
    /\ firstLog' = IF firstLog = NoResponse /\ resp'.status = HTTP_200_OK
                   THEN resp' ELSE firstLog
    /\ UNCHANGED <<env, provider, trips, stops, schedules, log_entries, pc, local>>

\* ------------------------------------------------------------------- Next
Next ==
    \/ \E request \in Requests, outcome \in provider, dbOk \in BOOLEAN :
            CreateTrip(request, outcome, dbOk)
    \/ \E dbOk \in BOOLEAN : SaveStops(dbOk)
    \/ \E dbOk \in BOOLEAN : SaveSchedules(dbOk)
    \/ TripList
    \/ \E id \in 1..MaxTrips : TripDetail(id)
    \/ \E trip_id \in 1..MaxTrips, day_number \in 1..MaxQueryDay :
            DailyLogs(trip_id, day_number)

Spec == Init /\ [][Next]_vars

\* ------------------------------------------------- planning, wide inputs
\* The planning handler alone, over a wide range of provider answers: each
\* behaviour fixes the environment and the one route the provider returns.
\* Routes (meters, seconds): nothing; 0.0062 mi in 20 s; 2500.0004 mi in
\* 25 h; 100.0066 mi in 11 h 20 s; 999.9997 mi in 10.9961 h; 1000.0003 mi
\* in 21.9961 h; then 319 h, 319 h 18 s, 319 h 20 s, 330 h, 341 h, 400 h.
PlanRoutes ==
    {Route(0, 0), Route(10, 20), Route(4023362, 90000), Route(160945, 39620),
     Route(1609344, 39586), Route(1609345, 79186),
     Route(804672, 1148400), Route(804672, 1148418), Route(2414016, 1148420),
     Route(804672, 1188000), Route(1609, 1227600), Route(3218688, 1440000)}

PlanEnvs ==
    {Environment(Token, NotSet, NotSet, NotSet),
     Environment(Token, EnvVar(TRUE, 8), EnvVar(TRUE, 8), EnvVar(TRUE, 500)),
     Environment(Token, EnvVar(TRUE, 1), NotSet, EnvVar(TRUE, 1))}

InitPlan ==
    /\ env \in PlanEnvs
    /\ provider \in {{route} : route \in PlanRoutes}
    /\ trips = <<>>
    /\ stops = <<>>
    /\ schedules = <<>>
    /\ log_entries = <<>>
    /\ pc = "idle"
    /\ local = NoLocal
    /\ resp = NoResponse
    /\ firstLog = NoResponse

NextPlan ==
    \/ \E request \in Requests, outcome \in provider, dbOk \in BOOLEAN :
            CreateTrip(request, outcome, dbOk)
    \/ \E dbOk \in BOOLEAN : SaveStops(dbOk)
    \/ \E dbOk \in BOOLEAN : SaveSchedules(dbOk)

SpecPlan == InitPlan /\ [][NextPlan]_vars

\* --------------------------------------------- day log, any day summary
\* The day-log view over a stored DailySchedule with any summary
\* (driving_hours >= 0, on_duty_hours >= driving_hours), in centi-hours.
DrivingHoursValues == {0, 1, 800, 1100, 1549, 1550, 1551, 1599, 1600, 1650, 2400}
OnDutyExtraValues == {0, 1, 50, 100, 300}

InitDayLog ==
    /\ env \in {Environment(Token, NotSet, NotSet, NotSet)}
    /\ provider = {}
    /\ trips = <<Trip(1, "Denver, CO", "Chicago, IL", "Dallas, TX", 0, 0, 0, 1)>>
    /\ stops = <<>>
    /\ \E driving \in DrivingHoursValues, extra \in OnDutyExtraValues :
            schedules = <<DailySchedule(1, 1, driving, driving + extra,
                                        ScheduleOffDutyHours * 100)>>
    /\ log_entries = <<>>
    /\ pc = "idle"
    /\ local = NoLocal
    /\ resp = NoResponse
    /\ firstLog = NoResponse

NextDayLog ==
    \E trip_id \in 1..MaxTrips, day_number \in 1..MaxQueryDay :
        DailyLogs(trip_id, day_number)

SpecDayLog == InitDayLog /\ [][NextDayLog]_vars

\* ============================================================== properties
CountType(rows, stop_type) ==
    Cardinality({i \in 1..Len(rows) : rows[i].stop_type = stop_type})

OfType(rows, stop_type) == SelectSeq(rows, LAMBDA s : s.stop_type = stop_type)

RECURSIVE SumDrivingHours(_)
SumDrivingHours(days) ==
    IF days = <<>> THEN 0
    ELSE days[1].driving_hours + SumDrivingHours(Tail(days))

Abs(x) == IF x < 0 THEN 0 - x ELSE x

\* The planning request most recently started has returned 201: local holds
\* its inputs and resp.data[1] the trip it emitted.
PlanReturned ==
    /\ pc = "idle"
    /\ resp.view = "create"
    /\ resp.status = HTTP_201_CREATED

\* The planning request most recently started has written its stops.
StopsSaved == local.trip # 0 /\ RelatedRows(stops, local.trip) # <<>>

\* A serialized trip has its stops (at least pickup and dropoff) and, when
\* there is driving to do, its daily schedules.
ViewIsComplete(view) ==
    /\ CountType(view.stops, "pickup") >= 1
    /\ CountType(view.stops, "dropoff") >= 1
    /\ view.trip.total_drive_hours > 0 => view.daily_schedules # <<>>

\* ---- C1
\* C1 (as claimed): once a planning invocation has ended, succeeded or not,
\* every persisted Trip has its Stops and DailySchedules, and an invocation
\* that failed left no Trip of its own behind.
C1_AllOrNothing ==
    pc = "idle" =>
        /\ \A i \in 1..Len(trips) : ViewIsComplete(TripSerializer(trips[i], stops, schedules))
        /\ (resp.view = "create" /\ resp.status # HTTP_201_CREATED)
              => resp.trip \notin 1..Len(trips)

\* ---- C2
\* C2: the stop list of a successful planning starts with the one pickup at
\* mile 0 and ends with the one dropoff at the trip's total distance; with
\* zero distance and duration it is exactly these two stops.
C2_PickupFirstDropoffLast ==
    PlanReturned =>
        LET view == resp.data[1]
            st == view.stops
        IN  /\ Len(st) >= 2
            /\ st[1].stop_type = "pickup"
            /\ st[1].mile_marker = 0
            /\ st[Len(st)].stop_type = "dropoff"
            /\ st[Len(st)].mile_marker = view.trip.total_distance_miles
            /\ CountType(st, "pickup") = 1
            /\ CountType(st, "dropoff") = 1
            /\ (local.distance_miles = 0 /\ local.driving_hours = 0) => Len(st) = 2

\* a successful planning with fuel and rest stops between pickup and dropoff,
\* whose distance does not sit on the hundredths grid
C2_Witness ==
    /\ PlanReturned
    /\ CountType(resp.data[1].stops, "fuel") >= 1
    /\ CountType(resp.data[1].stops, "rest") >= 1
    /\ local.distance_miles % 10 >= 5

\* ---- C3
\* C3 (as claimed): fuel stops = floor(distance / fuel interval), rest stops
\* = floor(drive_hours / rest interval), the i-th fuel stop is at mile
\* min(i * interval, distance) and the i-th rest stop at mile
\* min(i * rest interval * 50, distance).  Mile markers are centi-miles,
\* the distance milli-miles.
C3_StopsAsClaimed ==
    StopsSaved =>
        LET st == RelatedRows(stops, local.trip)
            fuel == OfType(st, "fuel")
            rest == OfType(st, "rest")
            F == fuel_stop_miles(env)
            L == driving_hours_limit(env)
        IN  /\ Len(fuel) = local.distance_miles \div (F * 1000)
            /\ Len(rest) = local.driving_hours \div (L * SecondsPerHour)
            /\ \A i \in 1..Len(fuel) :
                  fuel[i].mile_marker * 10 = Min(i * F * 1000, local.distance_miles)
            /\ \A i \in 1..Len(rest) :
                  rest[i].mile_marker * 10 = Min(i * L * AverageSpeedMph * 1000, local.distance_miles)

\* C3 (amended): the counts are the floors of the unrounded distance and
\* driving hours; the i-th fuel stop is at mile i * interval; the i-th rest
\* stop is at mile min(i * rest interval * 50, the trip's total distance
\* as stored, i.e. rounded to two decimals).
C3_StopCountsAndMiles ==
    StopsSaved =>
        LET st == RelatedRows(stops, local.trip)
            fuel == OfType(st, "fuel")
            rest == OfType(st, "rest")
            F == fuel_stop_miles(env)
            L == driving_hours_limit(env)
            total == trips[local.trip].total_distance_miles
        IN  /\ Len(fuel) = local.distance_miles \div (F * 1000)
            /\ Len(rest) = local.driving_hours \div (L * SecondsPerHour)
            /\ Len(st) = Len(fuel) + Len(rest) + 2
            /\ \A i \in 1..Len(fuel) :
                  /\ fuel[i].mile_marker = i * F * 100
                  /\ fuel[i].mile_marker <= total
            /\ \A i \in 1..Len(rest) :
                  rest[i].mile_marker = Min(i * L * AverageSpeedMph * 100, total)

\* stops saved with two fuel stops or more, and a rest stop clipped at a
\* distance that has a third decimal
C3_Witness ==
    /\ StopsSaved
    /\ CountType(RelatedRows(stops, local.trip), "fuel") >= 2
    /\ local.distance_miles % 10 # 0
    /\ \E i \in 1..Len(stops) :
          /\ stops[i].trip = local.trip
          /\ stops[i].stop_type = "rest"
          /\ stops[i].mile_marker = trips[local.trip].total_distance_miles

\* ---- C4
\* C4 (as claimed): at most max_days - 1 = 29 days, each at most the daily
\* cap, and the days' driving hours sum to at most total_drive_hours, to
\* exactly that when it is at most 29 * 11 h, and to less otherwise.  Day
\* hours are centi-hours (36 s), total_drive_hours is in seconds.
C4_ScheduleAsClaimed ==
    PlanReturned =>
        LET days == RelatedRows(schedules, local.trip)
            total == local.driving_hours
            sum == SumDrivingHours(days) * 36
            room == (MaxDays - 1) * DailyDrivingCap * SecondsPerHour
        IN  /\ Len(days) <= MaxDays - 1
            /\ \A i \in 1..Len(days) : days[i].driving_hours <= DailyDrivingCap * 100
            /\ sum <= total
            /\ total <= room => sum = total
            /\ total > room => sum < total

\* C4 (amended): at most 29 days, each at most the daily cap of 11 h; the
\* days' driving hours sum to at most the trip's total_drive_hours as stored
\* (rounded to two decimals): to exactly that when it is at most 29 * 11 h,
\* and to 29 * 11 h, which is less, otherwise.
C4_ScheduleBounded ==
    PlanReturned =>
        LET days == RelatedRows(schedules, local.trip)
            total == trips[local.trip].total_drive_hours
            sum == SumDrivingHours(days)
            room == (MaxDays - 1) * DailyDrivingCap * 100
        IN  /\ Len(days) <= MaxDays - 1
            /\ \A i \in 1..Len(days) : days[i].driving_hours <= DailyDrivingCap * 100
            /\ sum <= total
            /\ total <= room => sum = total
            /\ total > room => (sum = room /\ sum < total)

\* a planning whose driving hours do not fit 29 days: the excess is dropped
C4_Witness ==
    /\ PlanReturned
    /\ Len(RelatedRows(schedules, local.trip)) = MaxDays - 1
    /\ SumDrivingHours(RelatedRows(schedules, local.trip))
         < trips[local.trip].total_drive_hours

\* ---- C5
\* C5: the day log of any day summary starts at 8.0, is contiguous, and is
\* Driving (when driving_hours > 0), a 0.5 h Break (when on_duty_hours >
\* driving_hours), Off Duty up to 24.0 (when the cursor is below 24), in
\* that order; (8, 9) and (0, 0) give the logs of the examples.
C5_DayLogShape ==
    (resp.view = "daily-logs" /\ resp.status = HTTP_200_OK) =>
        LET body == resp.data[1]
            e == body.log_entries
            d == body.total_driving_hours
            o == body.total_on_duty_hours
            cursor == 800 + d + (IF o > d THEN 50 ELSE 0)
            expected == (IF d > 0 THEN <<"Driving">> ELSE <<>>)
                        \o (IF o > d THEN <<"Break">> ELSE <<>>)
                        \o (IF cursor < 2400 THEN <<"Off Duty">> ELSE <<>>)
        IN  /\ Len(e) >= 1
            /\ e[1].start_hour = 800
            /\ \A i \in 2..Len(e) : e[i].start_hour = e[i - 1].end_hour
            /\ [i \in 1..Len(e) |-> e[i].status] = expected
            /\ \A i \in 1..Len(e) :
                  /\ e[i].status = "Driving" => e[i].end_hour - e[i].start_hour = d
                  /\ e[i].status = "Break" => e[i].end_hour - e[i].start_hour = 50
                  /\ e[i].status = "Off Duty" => e[i].end_hour = 2400
            /\ cursor < 2400 => e[Len(e)].end_hour = 2400
            /\ cursor >= 2400 => e[Len(e)].end_hour = cursor
            /\ (d = 800 /\ o = 900) =>
                  e = <<LogEntry(800, 1600, "Driving"), LogEntry(1600, 1650, "Break"),
                        LogEntry(1650, 2400, "Off Duty")>>
            /\ (d = 0 /\ o = 0) => e = <<LogEntry(800, 2400, "Off Duty")>>

\* the log of the summary (8, 9), with its three entries
C5_Witness ==
    /\ resp.view = "daily-logs"
    /\ resp.status = HTTP_200_OK
    /\ resp.data[1].total_driving_hours = 800
    /\ resp.data[1].total_on_duty_hours = 900
    /\ Len(resp.data[1].log_entries) = 3

\* ---- C6
\* C6 (as claimed): estimated_days = max(1, floor(total_drive_hours / 11)),
\* at least 1, and at most one away from the number of DailySchedules.
C6_EstimatedDaysAsClaimed ==
    PlanReturned =>
        LET trip == trips[local.trip]
            days == RelatedRows(schedules, local.trip)
        IN  /\ trip.estimated_days
                 = Max(1, local.driving_hours \div (DailyDrivingCap * SecondsPerHour))
            /\ trip.estimated_days >= 1
            /\ Abs(trip.estimated_days - Len(days)) <= 1

\* C6 (amended): estimated_days = max(1, floor(total_drive_hours / 11)) on
\* the unrounded hours, at least 1; it is at most one away from the number
\* of DailySchedules when total_drive_hours < 341 h ((max_days + 1) * 11),
\* and from 341 h on it exceeds the 29 generated days by two or more.
C6_EstimatedDays ==
    PlanReturned =>
        LET trip == trips[local.trip]
            days == RelatedRows(schedules, local.trip)
            limit == (MaxDays + 1) * DailyDrivingCap * SecondsPerHour
        IN  /\ trip.estimated_days
                 = Max(1, local.driving_hours \div (DailyDrivingCap * SecondsPerHour))
            /\ trip.estimated_days >= 1
            /\ local.driving_hours < limit => Abs(trip.estimated_days - Len(days)) <= 1
            /\ local.driving_hours >= limit =>
                  (Len(days) = MaxDays - 1 /\ trip.estimated_days - Len(days) >= 2)

\* a trip of 25 h: 2 estimated days, 3 daily schedules
C6_Witness ==
    /\ PlanReturned
    /\ trips[local.trip].estimated_days = 2
    /\ Len(RelatedRows(schedules, local.trip)) = 3

\* ---- C7
\* the off-duty block the configuration asks for: OFF_DUTY_HOURS, else 13 h
ConfiguredOffDutyBlock(e) ==
    IF e.OFF_DUTY_HOURS.isset THEN e.OFF_DUTY_HOURS.value ELSE ScheduleOffDutyHours

\* C7 (as claimed): planning uses the configured values: no DailySchedule
\* drives more than the configured daily cap, estimated_days is computed
\* with it, every DailySchedule has the configured off-duty block, and fuel
\* stops are spaced by the configured fuel interval (11 h, 13 h, 1000 mi
\* when nothing is configured).
C7_ConfigurationIsUsed ==
    /\ \A i \in 1..Len(schedules) :
          /\ schedules[i].driving_hours <= driving_hours_limit(env) * 100
          /\ schedules[i].off_duty_hours = ConfiguredOffDutyBlock(env) * 100
    /\ local.trip # 0 =>
          trips[local.trip].estimated_days
            = Max(1, local.driving_hours \div (driving_hours_limit(env) * SecondsPerHour))
    /\ StopsSaved =>
          LET fuel == OfType(RelatedRows(stops, local.trip), "fuel")
          IN  \A i \in 1..Len(fuel) : fuel[i].mile_marker = i * fuel_stop_miles(env) * 100

\* ---- C8
FailsValidation(request) ==
    \/ ~request.valid
    \/ ~geocode_address(request.pickup_location)
    \/ ~geocode_address(request.dropoff_location)

\* C8 (as claimed): a planning request with a missing or malformed field,
\* or with a pickup or dropoff address the geocoder cannot resolve, is
\* answered with a 4xx status and creates no Trip (the server has its
\* Mapbox token).
C8_ValidationIsClientError ==
    (/\ pc = "idle"
     /\ resp.view = "create"
     /\ env.MAPBOX_ACCESS_TOKEN.isset
     /\ FailsValidation(local.request)) =>
        /\ resp.status \in 400..499
        /\ local.trip = 0
        /\ resp.trip = 0

\* ---- C9
\* C9: a day-log query changes no persisted row, and it answers a day whose
\* log was returned before exactly as the first time, whatever was planned
\* in between.
C9_DayLogIsPure ==
    [][(resp'.view = "daily-logs" /\ <<resp, firstLog>>' # <<resp, firstLog>>) =>
         /\ db' = db
         /\ (/\ firstLog # NoResponse
              /\ resp'.trip = firstLog.trip
              /\ resp'.day_number = firstLog.day_number) => resp' = firstLog]_vars

\* the first answer for a day of trip 1 is returned again after a second
\* trip, with daily schedules of its own, was planned
C9_Witness ==
    /\ firstLog # NoResponse
    /\ firstLog.trip = 1
    /\ resp = firstLog
    /\ local.trip = 2
    /\ pc = "idle"
    /\ RelatedRows(schedules, 2) # <<>>

\* ---- C10
\* C10 (as claimed): no trip list or trip detail ever shows a Trip without
\* its Stops (at least pickup and dropoff) and its DailySchedules.
C10_NoPartialTripVisible ==
    (resp.view \in {"trip-list", "trip-detail"} /\ resp.status = HTTP_200_OK) =>
        \A i \in 1..Len(resp.data) : ViewIsComplete(resp.data[i])

\* ---- C11
\* the day numbers of a trip's DailySchedules
DayNumbers(rows) == {rows[i].day_number : i \in 1..Len(rows)}

\* C11: in every state the DailySchedules of each Trip carry the day numbers
\* 1..k, each once (k the number of its schedules), so that a lookup by
\* (trip_id, day_number) matches at most one row; and every DailySchedule
\* has on_duty_hours >= driving_hours.
C11_DayNumbersSequential ==
    /\ \A id \in 1..Len(trips) :
          LET rows == RelatedRows(schedules, id)
          IN  /\ DayNumbers(rows) = 1..Len(rows)
              /\ \A day_number \in DayNumbers(rows) :
                    Len(ScheduleLookup(schedules, id, day_number)) = 1
    /\ \A i \in 1..Len(schedules) :
          /\ schedules[i].trip \in 1..Len(trips)
          /\ schedules[i].on_duty_hours >= schedules[i].driving_hours

\* two trips planned one after the other, each with the 29 days the loop
\* allows, the second one's rows stored after the first one's
C11_Witness ==
    /\ Len(trips) = 2
    /\ Len(RelatedRows(schedules, 1)) = MaxDays - 1
    /\ Len(RelatedRows(schedules, 2)) = MaxDays - 1
    /\ schedules[Len(schedules)].day_number = MaxDays - 1

\* ---- C12
\* the duty statuses: the labels of the choices of LogEntry.status
DutyStatuses == {"Off Duty", "Sleeper Berth", "Driving", "On Duty (Not Driving)", "Break"}

\* the entries of the day log most recently returned (none otherwise)
ReturnedEntries ==
    IF resp.view = "daily-logs" /\ resp.status = HTTP_200_OK
    THEN resp.data[1].log_entries
    ELSE <<>>

\* C12 (as claimed): every log entry of a day log has end hour > start hour,
\* start hour and end hour both in [0, 24), and a status of the closed set.
C12_EntriesAsClaimed ==
    \A i \in 1..Len(ReturnedEntries) :
        LET entry == ReturnedEntries[i]
        IN  /\ entry.end_hour > entry.start_hour
            /\ entry.start_hour >= 0 /\ entry.start_hour < DayEndHour
            /\ entry.end_hour >= 0 /\ entry.end_hour < DayEndHour
            /\ entry.status \in DutyStatuses

\* C12 (amended): every log entry of a day log has end hour > start hour,
\* start hour in [0, 24), end hour in [0, 24] (the Off Duty entry ends at
\* 24.0), and a status of the closed set.
C12_EntriesInDay ==
    \A i \in 1..Len(ReturnedEntries) :
        LET entry == ReturnedEntries[i]
        IN  /\ entry.end_hour > entry.start_hour
            /\ entry.start_hour >= 0 /\ entry.start_hour < DayEndHour
            /\ entry.end_hour >= 0 /\ entry.end_hour <= DayEndHour
            /\ entry.status \in DutyStatuses
            /\ entry.status = "Off Duty" => entry.end_hour = DayEndHour

\* the log of a planned day of 0.01 driving hours: its Driving entry is the
\* shortest there is, its Off Duty entry ends at 24.0
C12_Witness ==
    /\ Len(ReturnedEntries) = 3
    /\ ReturnedEntries[1] = LogEntry(DayStartHour, DayStartHour + 1, "Driving")
    /\ ReturnedEntries[3].end_hour = DayEndHour

\* ---- C13
\* current_hour once the Driving and Break entries of a schedule are emitted
CursorAfterBreak(schedule) ==
    LET driving == DrivingEntries(schedule, DayStartHour)
        afterDriving == Cursor(driving, DayStartHour)
    IN  Cursor(BreakEntries(schedule, afterDriving), afterDriving)

\* the entries start at 8.0, follow one another without a gap, and end with
\* an Off Duty entry that reaches 24.0
CoversTheDay(entries) ==
    /\ entries # <<>>
    /\ entries[1].start_hour = DayStartHour
    /\ \A i \in 2..Len(entries) : entries[i].start_hour = entries[i - 1].end_hour
    /\ entries[Len(entries)].status = "Off Duty"
    /\ entries[Len(entries)].end_hour = DayEndHour

\* C13: every DailySchedule that planning stored drives at most 11 h with
\* on-duty = driving + 1, so the day-log cursor after Driving and Break is at
\* most 19.5 < 24: the log of each such day, and every day log returned,
\* ends with an Off Duty entry at 24.0 and covers [8.0, 24.0] without a gap.
C13_OffDutyAlwaysEmitted ==
    /\ \A i \in 1..Len(schedules) :
          /\ schedules[i].driving_hours <= DailyDrivingCap * 100
          /\ schedules[i].on_duty_hours = schedules[i].driving_hours + BreakHours * 100
          /\ CursorAfterBreak(schedules[i]) <= DayStartHour + DailyDrivingCap * 100 + BreakLength
          /\ CursorAfterBreak(schedules[i]) < DayEndHour
          /\ CoversTheDay(SynthesizeDayLog(schedules[i]))
    /\ (resp.view = "daily-logs" /\ resp.status = HTTP_200_OK) =>
          CoversTheDay(resp.data[1].log_entries)

\* the log returned for a planned day of the full 11 driving hours: the
\* cursor stands at 19.5 when the Off Duty entry is emitted
C13_Witness ==
    /\ resp.view = "daily-logs"
    /\ resp.status = HTTP_200_OK
    /\ resp.data[1].total_driving_hours = DailyDrivingCap * 100
    /\ resp.data[1].log_entries[Len(resp.data[1].log_entries)]
         = LogEntry(DayStartHour + DailyDrivingCap * 100 + BreakLength, DayEndHour, "Off Duty")

====
